---- MODULE Spec2Model ----
(***************************************************************************)
(* MB_AsyncLoadController (src/unnamed/part_001, lines 22-86) under the    *)
(* JavaScript event loop: a task calls initLoadOperation, which builds a   *)
(* chain of promise reactions (one per load operation, then the completion *)
(* handler); reactions run as microtasks, in FIFO order, after the task's  *)
(* synchronous code has ended; interval callbacks are tasks and run only   *)
(* when no microtask is pending.                                           *)
(***************************************************************************)
EXTENDS Integers, Sequences, FiniteSets, TLC

\* Bounds of the model: the calls of initLoadOperation, and the load operations
\* submitted over all calls.
MaxRuns == 2
MaxOps == 4

\* Bounds of the specifications of asynchronous work and of the resource loader:
\* the asynchronous effects load operations start, the resources of one call.
MaxEffects == 1
MaxRes == 3

\* Bound of the specification of the account manager: the signIn and signOut
\* calls made.
MaxAuthCalls == 2

\* Bound of the specification of the storage manager: the change events of the
\* settings editor and the calls of refresh.
MaxStgEvents == 4

\* tips.length of the controller the page constructs (part_001, line 1181).
NumTips == 2

\* The load operations window.onload submits (part_001, lines 1224-1286).
NumPageOps == 6

VARIABLES
    cfg,            \* the constructor's options: which elements are present, tips.length
    run,            \* per call of initLoadOperation: its arguments, closure and history
    nRuns,          \* calls of initLoadOperation made so far
    timers,         \* ids of the intervals that are alive
    nextTimer,      \* the id the next setInterval returns
    mq,             \* the microtask queue: pending promise reactions
    inTask,         \* a task's synchronous code that called initLoadOperation is running
    loadingText,    \* loadingText.textContent: <<r, i>> is funcList[i].text of run r
    barWidth,       \* loadingProgressBar.style.width, in percent
    pctText,        \* loadingPercentage.textContent, in percent
    tipText,        \* loadingTips.textContent: 0 is '', k is tips[k-1]
    screenHidden,   \* loadingScreen.classList contains "hidden"
    writer,         \* history: the run that wrote each sink last (-t: a tick of timer t)
    log,            \* history: the work invocations, with what the sinks showed
    effects,        \* asynchronous effects started by the work of load operations
    ldr,            \* MB_ResourceLoader.loadFilesFromURLs: one call and its promises
    page,           \* window.onload: the browser's capabilities and what the load steps did
    acct,           \* MB_AccountManager: session, requests in flight, the account controls
    stg,            \* MB_StorageManager: localStorage, the settings editor, the debug interval
    input           \* MB_InputManager: playerMovementInput and the events received

vars == <<cfg, run, nRuns, timers, nextTimer, mq, inTask, loadingText, barWidth,
          pctText, tipText, screenHidden, writer, log, effects, ldr, page, acct, stg,
          input>>

\* What MB_AsyncLoadController never touches.
aside == <<ldr, acct, stg, input>>

sinks == <<loadingText, barWidth, pctText, tipText, screenHidden, writer>>

RunIds == 1..MaxRuns

\* The options the constructor stores (lines 35-40); tips defaults to [].
Options ==
    [screen: BOOLEAN, text: BOOLEAN, pct: BOOLEAN, bar: BOOLEAN,
     tipsEl: BOOLEAN, ntips: {0, NumTips}]

\* The controllers the repository constructs pass every element (part_001:1175);
\* the tip element and the tip list are the documented optional ones the
\* handler guards.
AllElements ==
    {o \in Options : o.screen /\ o.text /\ o.pct /\ o.bar}

NoRun ==
    [n |-> 0, cb |-> FALSE, pc |-> "new", tipInterval |-> 0, cbCount |-> 0,
     failedAt |-> -1, cbSaw |-> <<>>, solo |-> FALSE]

\* Math.round((100 / funcList.length) * idx): the nearest integer, halves up.
\* The integer formula agrees with the double-precision computation for every
\* funcList.length below 232.
PctFloor(idx, n) == (100 * idx) \div n
Pct(idx, n) == (200 * idx + n) \div (2 * n)

\* Line 56: the guard of setInterval.
StartsTimer == cfg.tipsEl /\ cfg.ntips > 0

\* Line 61: this.loadingTips.textContent = this.tips[0], inside the guard of line 56.
TipAfterCallKept == tipText
TipAfterCall == IF StartsTimer THEN 1 ELSE tipText

\* Line 66: if (this.loadingScreen) this.loadingScreen.classList.remove("hidden").
ScreenAfterCallKept == screenHidden
ScreenAfterCall == IF cfg.screen THEN FALSE ELSE screenHidden

\* Lines 70-73: the three sink writes precede func(), so the work runs with the
\* values just written (new), not with those of the step before (old).
ShownDuringWorkStale(old, new) == old
ShownDuringWork(old, new) == new

\* Line 73: func() is a statement of a block-bodied arrow function: what the
\* work returns (a promise, say) is dropped, the reaction returns undefined and
\* the derived promise is fulfilled at once.
AwaitsReturned(async) == async
Awaits(async) == FALSE

\* Line 58: Math.floor(Math.random() * this.tips.length), as a position in tips.
TickIndicesCeil == 2..(cfg.ntips + 1)
TickIndices == 1..cfg.ntips

\* Line 80: this.loadingScreen.classList.add("hidden").
ScreenAfterCompletionKept == screenHidden
ScreenAfterCompletion == TRUE

\* Lines 78-83: callback() is the last statement of the completion handler: it
\* sees the state the statements before it have produced (after), not the
\* state the handler started from (before).
CallbackViewEarly(before, after) == before
CallbackView(before, after) == after

\* Line 82: if (tipInterval) clearInterval(tipInterval).
KeepInterval(r) == timers
ClearInterval(r) ==
    IF run[r].tipInterval # 0 THEN timers \ {run[r].tipInterval} ELSE timers

\* Lines 78-79: the completion handler's "100%".
CompletionPctKept(r) == pctText
CompletionPct(r) == 100

\* Line 83: if (callback) callback().
CallbackSkipped(r) == 0
CallbackCalls(r) == IF run[r].cb THEN 1 ELSE 0

\* Line 77: promiseSequence.then(onFulfilled) registers no rejection handler,
\* so nothing of the controller runs when the chain is rejected.
TimersOnRejectionCleared(r) == ClearInterval(r)
TimersOnRejection(r) == timers

\* promise.then(onFulfilled): the reaction of the derived promise is queued when
\* the reaction before it has settled; a rejection passes on to it.
ReactionSwallows(r, idx, rej) == [r |-> r, idx |-> idx, rej |-> FALSE]
Reaction(r, idx, rej) == [r |-> r, idx |-> idx, rej |-> rej]

\* The load operations submitted by the first k calls.
RECURSIVE Submitted(_)
Submitted(k) == IF k = 0 THEN 0 ELSE run[k].n + Submitted(k - 1)

\* The work invocations of run r, in the order they happened.
WorksOf(r) == SelectSeq(log, LAMBDA e : e.r = r)

\* The event loop is idle: no task of the page is running, no reaction is pending.
Quiescent == ~inTask /\ mq = <<>>

\* The asynchronous effects run r has started that have not settled yet.
OpenEffects(r) == {e \in effects : e.r = r /\ ~e.settled}

\* What a callback can observe of the controller's sinks and of run r's interval.
View(r, alive, tip, pct, bar, hidden, works) ==
    [timerAlive |-> run[r].tipInterval \in alive, tip |-> tip, pct |-> pct,
     bar |-> bar, hidden |-> hidden, works |-> works,
     open |-> Cardinality(OpenEffects(r))]

\* MB_ResourceLoader before loadFilesFromURLs is called.
LdrIdle == [called |-> FALSE, types |-> <<>>, appended |-> {}, p |-> <<>>,
            fired |-> <<>>, all |-> "none"]

\* MB_AccountManager before its constructor runs: the controls as index.html
\* declares them (lines 381-397: no display style, so all are visible).
AcctIdle ==
    [auth |-> FALSE, calls |-> {}, reqs |-> {}, nCalls |-> 0, nReqs |-> 0,
     SIBtn |-> "default", SOBtn |-> "default", fields |-> "default",
     image |-> "default", name |-> "default", saw |-> "none"]

\* MB_StorageManager after its constructor (part_001:378-383), with nothing
\* stored under MB_Settings (stored is the string of localStorage, <<>> when
\* the key is absent; debugInfoInterval 0 is null).
StgIdle ==
    [stored |-> <<>>, defaultDebug |-> FALSE, debugInfoInterval |-> 0,
     alive |-> {}, nextId |-> 1, overlay |-> FALSE, refreshes |-> 0,
     lastRead |-> FALSE, events |-> 0,
     last |-> [seen |-> FALSE, value |-> <<>>, before |-> <<>>, calls |-> 0]]

\* An event the input manager listens to: a keydown with its key and whether
\* its target is an input or textarea element, or a mousemove.
NoEvent == [key |-> "none", onInput |-> FALSE]

\* MB_InputManager after its constructor (part_001:95-98): playerMovementInput
\* is (0, 0), inputThreshold defaults to 1. hist holds the last two events,
\* prev playerMovementInput before the last one.
InputIdle ==
    [x |-> 0, y |-> 0, threshold |-> 1, prev |-> <<0, 0>>,
     hist |-> <<NoEvent, NoEvent>>]

TypeOK ==
    /\ cfg \in Options
    /\ nRuns \in 0..MaxRuns
    /\ timers \subseteq 1..MaxRuns
    /\ nextTimer \in 1..(MaxRuns + 1)
    /\ inTask \in BOOLEAN
    /\ tipText \in 0..NumTips
    /\ screenHidden \in BOOLEAN
    /\ barWidth \in 0..100
    /\ pctText \in 0..100

\* The page before window.onload, in a browser that supports everything
\* (part_001:1169-1170: both flags are declared true).
PageIdle ==
    [webgl |-> TRUE, ws |-> TRUE, gamepad |-> TRUE, noSupport |-> FALSE,
     onlinePlayEnabled |-> TRUE, gamepadSupported |-> TRUE, editor |-> FALSE,
     viewport |-> FALSE]

\* The state of MB_AsyncLoadController and of the event loop before any call.
InitRun ==
    /\ run = [r \in RunIds |-> NoRun]
    /\ nRuns = 0
    /\ timers = {}
    /\ nextTimer = 1
    /\ mq = <<>>
    /\ inTask = FALSE
    /\ loadingText = <<0, 0>>
    /\ barWidth = 0
    /\ pctText = 0
    /\ tipText = 0
    /\ screenHidden = FALSE
    /\ writer = [text |-> 0, bar |-> 0, pct |-> 0, tip |-> 0]
    /\ log = <<>>
    /\ effects = {}

InitCommon ==
    /\ InitRun
    /\ ldr = LdrIdle
    /\ page = PageIdle
    /\ acct = AcctIdle
    /\ stg = StgIdle
    /\ input = InputIdle

Init ==
    /\ cfg \in AllElements
    /\ InitCommon

\* initLoadOperation(funcList, callback), lines 50-85: the synchronous part.
InitLoadOperation(n, cb) ==
    /\ nRuns < MaxRuns
    /\ inTask \/ mq = <<>>
    /\ LET r == nRuns + 1 IN
        /\ nRuns' = r
        /\ run' = [run EXCEPT ![r] =
                [NoRun EXCEPT !.n = n, !.cb = cb, !.pc = "running",
                              !.solo = (mq = <<>>),
                              !.tipInterval = IF StartsTimer THEN nextTimer ELSE 0]]
        /\ timers' = IF StartsTimer THEN timers \cup {nextTimer} ELSE timers
        /\ nextTimer' = IF StartsTimer THEN nextTimer + 1 ELSE nextTimer
        /\ tipText' = TipAfterCall
        /\ writer' = IF StartsTimer THEN [writer EXCEPT !.tip = r] ELSE writer
        /\ screenHidden' = ScreenAfterCall
        /\ mq' = Append(mq, Reaction(r, 0, FALSE))
        /\ inTask' = TRUE
        /\ UNCHANGED <<cfg, loadingText, barWidth, pctText, log, effects, aside, page>>

\* A call of initLoadOperation with a list of n load operations, within the
\* bound on the operations submitted.
Call(n, cb) ==
    /\ n <= MaxOps - Submitted(nRuns)
    /\ InitLoadOperation(n, cb)

\* The task that called initLoadOperation returns to the event loop.
EndTask ==
    /\ inTask
    /\ inTask' = FALSE
    /\ UNCHANGED <<cfg, run, nRuns, timers, nextTimer, mq, sinks, log, effects, aside, page>>

\* Lines 69-74: the reaction of load operation idx; its work raises, or returns,
\* having started an asynchronous effect (async) or not.
Step(raises, async) ==
    /\ ~inTask
    /\ mq # <<>>
    /\ LET h == Head(mq)
           r == h.r
           i == h.idx
           n == run[r].n
           wroteText == cfg.text
           wroteBar == wroteText /\ cfg.bar
           wrotePct == wroteBar /\ cfg.pct
           threw == ~wrotePct \/ raises
           started == wrotePct /\ ~raises /\ async
           waits == started /\ Awaits(async)
       IN
        /\ ~h.rej
        /\ i < n
        /\ loadingText' = IF wroteText THEN <<r, i>> ELSE loadingText
        /\ barWidth' = IF wroteBar THEN Pct(i, n) ELSE barWidth
        /\ pctText' = IF wrotePct THEN Pct(i, n) ELSE pctText
        /\ writer' = [writer EXCEPT
                        !.text = IF wroteText THEN r ELSE @,
                        !.bar = IF wroteBar THEN r ELSE @,
                        !.pct = IF wrotePct THEN r ELSE @]
        /\ log' = IF wrotePct
                  THEN Append(log, [r |-> r, i |-> i,
                                    label |-> ShownDuringWork(loadingText, loadingText'),
                                    bar |-> ShownDuringWork(barWidth, barWidth'),
                                    pct |-> ShownDuringWork(pctText, pctText'),
                                    raised |-> raises, hidden |-> screenHidden,
                                    tip |-> tipText,
                                    open |-> Cardinality(OpenEffects(r))])
                  ELSE log
        /\ effects' = IF started
                      THEN effects \cup {[r |-> r, i |-> i, awaited |-> waits,
                                           settled |-> FALSE]}
                      ELSE effects
        /\ run' = IF threw
                  THEN [run EXCEPT ![r].pc = "failed", ![r].failedAt = i]
                  ELSE run
        /\ mq' = IF waits THEN Tail(mq) ELSE Append(Tail(mq), Reaction(r, i + 1, threw))
        /\ UNCHANGED <<cfg, nRuns, timers, nextTimer, inTask, tipText, screenHidden,
                       aside>>

\* The work of the load operation is synchronous: it returns or raises.
StepReaction(raises) == Step(raises, FALSE) /\ UNCHANGED page

\* The work starts an asynchronous effect (a request, a promise) and returns.
AsyncStepReaction ==
    /\ Cardinality(effects) < MaxEffects
    /\ Step(FALSE, TRUE)
    /\ UNCHANGED page

\* An asynchronous effect settles, at any later point of the event loop. Had the
\* controller awaited it, the chain would go on only now.
EffectSettles(e) ==
    /\ ~inTask
    /\ e \in effects
    /\ ~e.settled
    /\ effects' = (effects \ {e}) \cup {[e EXCEPT !.settled = TRUE]}
    /\ mq' = IF e.awaited THEN Append(mq, Reaction(e.r, e.i + 1, FALSE)) ELSE mq
    /\ UNCHANGED <<cfg, run, nRuns, timers, nextTimer, inTask, sinks, log, aside, page>>

\* Lines 77-84: the completion handler.
CompletionReaction ==
    /\ ~inTask
    /\ mq # <<>>
    /\ LET h == Head(mq)
           r == h.r
           wrotePct == cfg.pct
           wroteBar == wrotePct /\ cfg.bar
           hid == wroteBar /\ cfg.screen
           cleared == hid /\ cfg.tipsEl
       IN
        /\ ~h.rej
        /\ h.idx = run[r].n
        /\ pctText' = IF wrotePct THEN CompletionPct(r) ELSE pctText
        /\ barWidth' = IF wroteBar THEN CompletionPct(r) ELSE barWidth
        /\ screenHidden' = IF hid THEN ScreenAfterCompletion ELSE screenHidden
        /\ tipText' = IF cleared THEN 0 ELSE tipText
        /\ writer' = [writer EXCEPT
                        !.pct = IF wrotePct THEN r ELSE @,
                        !.bar = IF wroteBar THEN r ELSE @,
                        !.tip = IF cleared THEN r ELSE @]
        /\ timers' = IF hid THEN ClearInterval(r) ELSE timers
        /\ run' = IF hid
                  THEN [run EXCEPT
                          ![r].pc = "completed",
                          ![r].cbCount = @ + CallbackCalls(r),
                          ![r].cbSaw = IF run[r].cb
                                       THEN <<CallbackView(
                                                 View(r, timers, tipText, pctText, barWidth,
                                                      screenHidden, Len(WorksOf(r))),
                                                 View(r, timers', tipText', pctText',
                                                      barWidth', screenHidden',
                                                      Len(WorksOf(r))))>>
                                       ELSE @]
                  ELSE [run EXCEPT ![r].pc = "failed", ![r].failedAt = run[r].n]
        /\ mq' = Tail(mq)
        /\ UNCHANGED <<cfg, nRuns, nextTimer, inTask, loadingText, log, effects, aside, page>>

\* A reaction registered with then(onFulfilled) on a rejected promise: the
\* handler is skipped and the rejection passes to the derived promise.
RejectionReaction ==
    /\ ~inTask
    /\ mq # <<>>
    /\ LET h == Head(mq) IN
        /\ h.rej
        /\ mq' = IF h.idx < run[h.r].n
                 THEN Append(Tail(mq), Reaction(h.r, h.idx + 1, TRUE))
                 ELSE Tail(mq)
        /\ timers' = TimersOnRejection(h.r)
    /\ UNCHANGED <<cfg, run, nRuns, nextTimer, inTask, sinks, log, effects, aside, page>>

\* Lines 57-60: the interval callback, a task of its own: it runs between tasks,
\* when no promise reaction is pending (not at any moment its interval is alive).
TickEnabledAnytime(t) == t \in timers
TickEnabled(t) == ~inTask /\ mq = <<>> /\ t \in timers

Tick(t, k) ==
    /\ TickEnabled(t)
    /\ tipText' = k
    /\ writer' = [writer EXCEPT !.tip = -t]
    /\ UNCHANGED <<cfg, run, nRuns, timers, nextTimer, mq, inTask, loadingText,
                   barWidth, pctText, screenHidden, log, effects, aside, page>>

Next ==
    \/ \E n \in 0..MaxOps, cb \in BOOLEAN : Call(n, cb)
    \/ EndTask
    \/ \E raises \in BOOLEAN : StepReaction(raises)
    \/ CompletionReaction
    \/ RejectionReaction
    \/ \E t \in timers, k \in TickIndices : Tick(t, k)

Spec == Init /\ [][Next]_vars

\* The constructor (lines 34-41) stores whatever options it is given and checks
\* none of them: a controller can be constructed with any subset of the elements.
InitCfg ==
    /\ cfg \in Options
    /\ InitCommon

SpecCfg == InitCfg /\ [][Next]_vars

\* Load operations whose work returns normally, having started an asynchronous
\* effect (playLevel's networkManager.init, part_001:963-967) or not; the
\* effects settle on their own. As no work raises, no chain is rejected and no
\* interval outlives its run, so that no interval callback runs between tasks.
NextAsync ==
    \/ \E n \in 0..MaxOps, cb \in BOOLEAN : Call(n, cb)
    \/ EndTask
    \/ StepReaction(FALSE)
    \/ AsyncStepReaction
    \/ CompletionReaction
    \/ \E e \in effects : EffectSettles(e)

\* The controller the page constructs (part_001:1175-1185): every element, two tips.
InitAsync ==
    /\ cfg = [screen |-> TRUE, text |-> TRUE, pct |-> TRUE, bar |-> TRUE,
              tipsEl |-> TRUE, ntips |-> NumTips]
    /\ InitCommon

SpecAsync == InitAsync /\ [][NextAsync]_vars

(***************************************************************************)
(* MB_ResourceLoader.loadFilesFromURLs (part_001, lines 318-369): one call  *)
(* with a list of resources, given by their types; the events of the       *)
(* elements it appended arrive later, in any order.                        *)
(***************************************************************************)

\* The variables of MB_AsyncLoadController, which the loader never touches.
controller == <<cfg, run, nRuns, timers, nextTimer, mq, inTask, sinks, log, effects>>

\* rsrc.type: the two types loadResource knows, and any other value.
ResourceTypes == {"css", "js", "other"}

ResourceLists == UNION {[1..k -> ResourceTypes] : k \in 0..MaxRes}

\* Lines 339-351: the types for which loadResource creates and appends an element.
ValidType(type) == type \in {"css", "js"}

\* Line 367: Promise.all(rsrces): rejected as soon as one promise is rejected,
\* fulfilled when all are fulfilled. (Promise.allSettled would wait for all and
\* never reject.)
PromiseAllSettled(p) ==
    IF \A i \in 1..Len(p) : p[i] # "pending" THEN "resolved" ELSE "pending"
PromiseAll(p) ==
    IF \E i \in 1..Len(p) : p[i] = "rejected" THEN "rejected"
    ELSE IF \A i \in 1..Len(p) : p[i] = "resolved" THEN "resolved"
    ELSE "pending"

\* Lines 327-368: the call. loadResource runs for every resource (line 366):
\* it appends an element and leaves the promise pending, or rejects at once
\* (lines 348-350) and appends nothing. Promise.all of an empty list is
\* fulfilled when it returns.
LoadFilesFromURLs(types) ==
    /\ ~ldr.called
    /\ ldr' = [called |-> TRUE,
               types |-> types,
               appended |-> {i \in 1..Len(types) : ValidType(types[i])},
               p |-> [i \in 1..Len(types) |->
                        IF ValidType(types[i]) THEN "pending" ELSE "rejected"],
               fired |-> [i \in 1..Len(types) |-> "none"],
               all |-> IF types = <<>> THEN "resolved" ELSE "pending"]
    /\ UNCHANGED <<controller, page, acct, stg, input>>

\* Lines 353-356: element.onload: the load event of the element of resource i.
OnLoad(i) ==
    /\ i \in ldr.appended
    /\ ldr.fired[i] = "none"
    /\ ldr' = [ldr EXCEPT !.fired[i] = "load", !.p[i] = "resolved"]
    /\ UNCHANGED <<controller, page, acct, stg, input>>

\* Lines 358-361: element.onerror: the error event of the element of resource i.
OnError(i) ==
    /\ i \in ldr.appended
    /\ ldr.fired[i] = "none"
    /\ ldr' = [ldr EXCEPT !.fired[i] = "error", !.p[i] = "rejected"]
    /\ UNCHANGED <<controller, page, acct, stg, input>>

\* Line 367: the reaction of Promise.all to the promises of the resources.
AllSettles ==
    /\ ldr.all = "pending"
    /\ PromiseAll(ldr.p) # "pending"
    /\ ldr' = [ldr EXCEPT !.all = PromiseAll(ldr.p)]
    /\ UNCHANGED <<controller, page, acct, stg, input>>

NextLoader ==
    \/ \E types \in ResourceLists : LoadFilesFromURLs(types)
    \/ \E i \in 1..MaxRes : OnLoad(i)
    \/ \E i \in 1..MaxRes : OnError(i)
    \/ AllSettles

SpecLoader == InitAsync /\ [][NextLoader]_vars

(***************************************************************************)
(* The controller of src/js/index.js (lines 11-74), an earlier variant: its *)
(* step reaction writes no percentage, its completion handler writes no    *)
(* "100%" and has no clearInterval; it shows and hides the loading screen  *)
(* with style.display. The call (lines 41-59) is that of part_001.         *)
(***************************************************************************)

\* js/index.js, lines 68-72: the completion handler leaves the intervals alone.
TimersAfterCompletionJsCleared(r) == ClearInterval(r)
TimersAfterCompletionJs(r) == timers

\* js/index.js, lines 62-66: the reaction of load operation idx.
StepReactionJs(raises) ==
    /\ ~inTask
    /\ mq # <<>>
    /\ LET h == Head(mq)
           r == h.r
           i == h.idx
           n == run[r].n
           wroteText == cfg.text
           wroteBar == wroteText /\ cfg.bar
           threw == ~wroteBar \/ raises
       IN
        /\ ~h.rej
        /\ i < n
        /\ loadingText' = IF wroteText THEN <<r, i>> ELSE loadingText
        /\ barWidth' = IF wroteBar THEN Pct(i, n) ELSE barWidth
        /\ writer' = [writer EXCEPT
                        !.text = IF wroteText THEN r ELSE @,
                        !.bar = IF wroteBar THEN r ELSE @]
        /\ log' = IF wroteBar
                  THEN Append(log, [r |-> r, i |-> i, label |-> loadingText',
                                    bar |-> barWidth', pct |-> pctText,
                                    raised |-> raises, hidden |-> screenHidden,
                                    tip |-> tipText,
                                    open |-> Cardinality(OpenEffects(r))])
                  ELSE log
        /\ run' = IF threw
                  THEN [run EXCEPT ![r].pc = "failed", ![r].failedAt = i]
                  ELSE run
        /\ mq' = Append(Tail(mq), Reaction(r, i + 1, threw))
        /\ UNCHANGED <<cfg, nRuns, timers, nextTimer, inTask, pctText, tipText,
                       screenHidden, effects, aside, page>>

\* js/index.js, lines 68-72: the completion handler.
CompletionReactionJs ==
    /\ ~inTask
    /\ mq # <<>>
    /\ LET h == Head(mq)
           r == h.r
           hid == cfg.screen
           cleared == hid /\ cfg.tipsEl
       IN
        /\ ~h.rej
        /\ h.idx = run[r].n
        /\ screenHidden' = IF hid THEN TRUE ELSE screenHidden
        /\ tipText' = IF cleared THEN 0 ELSE tipText
        /\ writer' = [writer EXCEPT !.tip = IF cleared THEN r ELSE @]
        /\ timers' = TimersAfterCompletionJs(r)
        /\ run' = IF hid
                  THEN [run EXCEPT
                          ![r].pc = "completed",
                          ![r].cbCount = @ + CallbackCalls(r),
                          ![r].cbSaw = IF run[r].cb
                                       THEN <<View(r, timers', tipText', pctText,
                                                   barWidth, screenHidden',
                                                   Len(WorksOf(r)))>>
                                       ELSE @]
                  ELSE [run EXCEPT ![r].pc = "failed", ![r].failedAt = run[r].n]
        /\ mq' = Tail(mq)
        /\ UNCHANGED <<cfg, nRuns, nextTimer, inTask, loadingText, barWidth, pctText,
                       log, effects, aside, page>>

NextJs ==
    \/ \E n \in 0..MaxOps, cb \in BOOLEAN : Call(n, cb)
    \/ EndTask
    \/ \E raises \in BOOLEAN : StepReactionJs(raises)
    \/ CompletionReactionJs
    \/ RejectionReaction
    \/ \E t \in timers, k \in TickIndices : Tick(t, k)

SpecJs == InitAsync /\ [][NextJs]_vars

(***************************************************************************)
(* window.onload (part_001, lines 1223-1289): the page's load sequence, on  *)
(* the controller the page constructs, in a browser with or without WebGL, *)
(* WebSocket and the Gamepad API.                                           *)
(***************************************************************************)

\* Lines 1227-1230: without WebGL the compatibility step shows the notice and
\* throws.
WebGLCheckWarns(pg) == FALSE
WebGLCheckRaises(pg) == ~pg.webgl

\* Lines 1232-1240, reached with WebGL. Without WebSocket line 1234 assigns to
\* onlinePlayEnabled, declared const (line 1169): a TypeError, and the flag keeps
\* its value. Without the Gamepad API navigator.getGamepads is undefined and
\* the call of line 1237 is a TypeError; with it the call returns an array,
\* which is truthy, so that line 1239 is never reached.
FlagWriteRaises(pg) == ~pg.ws \/ ~pg.gamepad

\* The work of load operation i of window.onload: whether it raises, and the
\* page it leaves. The later operations call into the libraries of the page
\* (JSONEditor, three.js): each of them may fail, and then raises before it
\* has had its effect.
PageWork(i, pg, fails) ==
    IF i = 0
    THEN IF WebGLCheckRaises(pg)
         THEN [raises |-> TRUE, page |-> [pg EXCEPT !.noSupport = TRUE]]
         ELSE [raises |-> FlagWriteRaises(pg), page |-> pg]
    ELSE IF fails THEN [raises |-> TRUE, page |-> pg]
    ELSE IF i = 1 THEN [raises |-> FALSE, page |-> [pg EXCEPT !.editor = TRUE]]
    ELSE IF i = NumPageOps - 1
         THEN [raises |-> FALSE, page |-> [pg EXCEPT !.viewport = TRUE]]
    ELSE [raises |-> FALSE, page |-> pg]

InitPage ==
    /\ cfg = [screen |-> TRUE, text |-> TRUE, pct |-> TRUE, bar |-> TRUE,
              tipsEl |-> TRUE, ntips |-> NumTips]
    /\ InitRun
    /\ ldr = LdrIdle
    /\ acct = AcctIdle
    /\ stg = StgIdle
    /\ input = InputIdle
    /\ \E gl \in BOOLEAN, ws \in BOOLEAN, gp \in BOOLEAN :
           page = [PageIdle EXCEPT !.webgl = gl, !.ws = ws, !.gamepad = gp]

\* Line 1224: the load event calls initLoadOperation with the six operations
\* and a callback.
PageOnload ==
    /\ nRuns = 0
    /\ InitLoadOperation(NumPageOps, TRUE)

\* Lines 69-74 for an operation of window.onload.
PageStep(fails) ==
    /\ ~inTask
    /\ mq # <<>>
    /\ Head(mq).idx = 0 => ~fails
    /\ LET w == PageWork(Head(mq).idx, page, fails) IN
        /\ Step(w.raises, FALSE)
        /\ page' = w.page

NextPage ==
    \/ PageOnload
    \/ EndTask
    \/ \E fails \in BOOLEAN : PageStep(fails)
    \/ CompletionReaction
    \/ RejectionReaction
    \/ \E t \in timers, k \in TickIndices : Tick(t, k)

SpecPage == InitPage /\ [][NextPage]_vars

(***************************************************************************)
(* MB_StorageManager: setupEditors (part_001, lines 432-454; the same in    *)
(* part_000, lines 328-350) and refresh as part_000 has it (lines 352-371). *)
(* settings-schema.json and settings-default.json are not part of the      *)
(* sources: a settings value is its display.debugMode and one more field,  *)
(* one value of which the schema rejects.                                  *)
(***************************************************************************)

SettingsValues == [debugMode : BOOLEAN, other : {"a", "b", "bad"}]

\* this.settingsEditor.validate().length: the number of schema errors.
SchemaErrors(v) == IF v.other = "bad" THEN 1 ELSE 0

\* JSON.stringify and JSON.parse of a settings value.
Stringify(v) == <<IF v.debugMode THEN "true" ELSE "false", v.other>>
Parse(str) == [debugMode |-> (str[1] = "true"), other |-> str[2]]

\* Lines 447-450: if (this.settingsEditor.validate().length) {...; return;}
RejectedNever(v) == FALSE
Rejected(v) == SchemaErrors(v) > 0

\* part_000, line 356: if (!this.debugInfoInterval).
StartsDebugIntervalAlways(st) == TRUE
StartsDebugInterval(st) == st.debugInfoInterval = 0

\* part_000, lines 352-371: refresh(), on the storage manager st.
Refresh(st) ==
    LET debugMode == IF st.stored = <<>> THEN st.defaultDebug
                     ELSE Parse(st.stored).debugMode
        seen == [st EXCEPT !.overlay = debugMode, !.lastRead = debugMode,
                           !.refreshes = @ + 1]
    IN  IF debugMode
        THEN IF StartsDebugInterval(st)
             THEN [seen EXCEPT !.debugInfoInterval = st.nextId,
                               !.alive = @ \cup {st.nextId},
                               !.nextId = @ + 1]
             ELSE seen
        ELSE IF st.debugInfoInterval # 0
             THEN [seen EXCEPT !.alive = @ \ {st.debugInfoInterval},
                               !.debugInfoInterval = 0]
             ELSE seen

\* The page opens with MB_Settings absent or as an earlier visit stored it.
InitStorage ==
    /\ cfg = [screen |-> TRUE, text |-> TRUE, pct |-> TRUE, bar |-> TRUE,
              tipsEl |-> TRUE, ntips |-> NumTips]
    /\ InitRun
    /\ ldr = LdrIdle
    /\ page = PageIdle
    /\ acct = AcctIdle
    /\ input = InputIdle
    /\ \E dflt \in BOOLEAN,
          str \in {<<>>} \cup {Stringify(v) : v \in {w \in SettingsValues : SchemaErrors(w) = 0}} :
           stg = [StgIdle EXCEPT !.defaultDebug = dflt, !.stored = str]

\* Lines 446-453: the editor's change event, the editor holding value v.
EditorChange(v) ==
    /\ stg.events < MaxStgEvents
    /\ LET ev == [stg EXCEPT !.events = @ + 1]
           st == IF Rejected(v) THEN ev
                 ELSE Refresh([ev EXCEPT !.stored = Stringify(v)])
       IN stg' = [st EXCEPT !.last = [seen |-> TRUE, value |-> Stringify(v),
                                       before |-> stg.stored,
                                       calls |-> st.refreshes - stg.refreshes]]
    /\ UNCHANGED <<controller, ldr, page, acct, input>>

\* A call of refresh() from elsewhere.
RefreshCall ==
    /\ stg.events < MaxStgEvents
    /\ stg' = Refresh([stg EXCEPT !.events = @ + 1])
    /\ UNCHANGED <<controller, ldr, page, acct, input>>

NextStorage ==
    \/ \E v \in SettingsValues : EditorChange(v)
    \/ RefreshCall

SpecStorage == InitStorage /\ [][NextStorage]_vars

(***************************************************************************)
(* MB_InputManager.subscribeToEvents (part_001, lines 107-136): the keydown *)
(* and mousemove listeners.                                                *)
(***************************************************************************)

UpKeys == {"W", "w", "ArrowUp"}
LeftKeys == {"A", "a", "ArrowLeft"}
DownKeys == {"S", "s", "ArrowDown"}
RightKeys == {"D", "d", "ArrowRight"}

\* event.key: the keys of the switch, and two it has no case for.
Keys == UpKeys \cup LeftKeys \cup DownKeys \cup RightKeys \cup {"q", "Enter"}

\* event.movementX and event.movementY of a mousemove.
Movements == {-1, 0}

\* Line 110: if (!event.target.matches("input,textarea")).
TargetIgnoredNever(onInput) == FALSE
TargetIgnored(onInput) == onInput

\* Lines 112-133: the switch on event.key.
KeyApplied(inp, key) ==
    IF key \in UpKeys THEN [inp EXCEPT !.y = inp.threshold]
    ELSE IF key \in LeftKeys THEN [inp EXCEPT !.x = -inp.threshold]
    ELSE IF key \in DownKeys THEN [inp EXCEPT !.y = -inp.threshold]
    ELSE IF key \in RightKeys THEN [inp EXCEPT !.x = inp.threshold]
    ELSE inp

\* The page constructs MB_InputManager(2) (line 1186); the default is 1.
InitInput ==
    /\ cfg = [screen |-> TRUE, text |-> TRUE, pct |-> TRUE, bar |-> TRUE,
              tipsEl |-> TRUE, ntips |-> NumTips]
    /\ InitRun
    /\ ldr = LdrIdle
    /\ page = PageIdle
    /\ acct = AcctIdle
    /\ stg = StgIdle
    /\ \E th \in {1, 2} : input = [InputIdle EXCEPT !.threshold = th]

\* Lines 109-135: the keydown listener.
KeyDown(key, onInput) ==
    /\ LET moved == IF TargetIgnored(onInput) THEN input ELSE KeyApplied(input, key)
       IN input' = [moved EXCEPT
                       !.prev = <<input.x, input.y>>,
                       !.hist = <<input.hist[2], [key |-> key, onInput |-> onInput]>>]
    /\ UNCHANGED <<controller, ldr, page, acct, stg>>

\* Lines 143-148: the mousemove listener.
MouseMove(dx, dy) ==
    /\ input' = [input EXCEPT
                    !.x = dx, !.y = dy,
                    !.prev = <<input.x, input.y>>,
                    !.hist = <<input.hist[2], [key |-> "mousemove", onInput |-> FALSE]>>]
    /\ UNCHANGED <<controller, ldr, page, acct, stg>>

NextInput ==
    \/ \E key \in Keys, onInput \in BOOLEAN : KeyDown(key, onInput)
    \/ \E dx \in Movements, dy \in Movements : MouseMove(dx, dy)

SpecInput == InitInput /\ [][NextInput]_vars

(***************************************************************************)
(* MB_AccountManager (part_001, lines 552-669). signIn and signOut await    *)
(* the authentication service and then call refreshDisplay, which sends a  *)
(* getUser request and updates the controls when its response arrives; the *)
(* responses of different requests arrive in any order.                    *)
(***************************************************************************)

\* style.display of a control: "default" is the value of index.html.
Visible(d) == d # "none"

\* this.supabase.auth.getUser() (line 609): a request whose response is not
\* yet determined.
IssueGetUser(a, kind) ==
    [a EXCEPT !.reqs = @ \cup {[id |-> a.nReqs + 1, kind |-> kind, user |-> "unread"]},
              !.nReqs = @ + 1]

\* Lines 642-647: getCurrentUserRecord().then(rec => ...) shows the image and the
\* name. getCurrentUserRecord (line 619) reads .data.user of the promise that
\* getCurrentUser() returns, not of its result: the TypeError rejects its
\* promise, and the callback that shows the image and the name never runs.
RecordCallbackRuns == FALSE

\* Line 581, the last statement of the constructor: this.refreshDisplay(); the
\* browser may hold a session from an earlier visit.
InitAccount ==
    /\ cfg = [screen |-> TRUE, text |-> TRUE, pct |-> TRUE, bar |-> TRUE,
              tipsEl |-> TRUE, ntips |-> NumTips]
    /\ InitRun
    /\ ldr = LdrIdle
    /\ page = PageIdle
    /\ stg = StgIdle
    /\ input = InputIdle
    /\ \E session \in BOOLEAN :
           acct = IssueGetUser([AcctIdle EXCEPT !.auth = session], "display")

\* Lines 589-593 and 628-629: signIn or signOut is called (op is "in" or "out")
\* and awaits the authentication service.
AuthCall(op) ==
    /\ acct.nCalls < MaxAuthCalls
    /\ acct' = [acct EXCEPT !.calls = @ \cup {[id |-> acct.nCalls + 1, op |-> op]},
                            !.nCalls = @ + 1]
    /\ UNCHANGED <<controller, ldr, page, stg, input>>

\* Lines 593-601 and 629-631: the service answers (ok: without error) and the
\* call goes on with this.refreshDisplay().
AuthSettles(c, ok) ==
    /\ c \in acct.calls
    /\ acct' = IssueGetUser(
                   [acct EXCEPT !.calls = @ \ {c},
                                !.auth = IF ok THEN (c.op = "in") ELSE @],
                   "display")
    /\ UNCHANGED <<controller, ldr, page, stg, input>>

\* The authentication service evaluates a getUser request: the response tells
\* whether a user is signed in at that moment.
GetUserReads(q) ==
    /\ q \in acct.reqs
    /\ q.user = "unread"
    /\ acct' = [acct EXCEPT !.reqs = (@ \ {q}) \cup
                    {[q EXCEPT !.user = IF acct.auth THEN "user" ELSE "null"]}]
    /\ UNCHANGED <<controller, ldr, page, stg, input>>

\* Lines 640-667: the response of a getUser request arrives. For the request of
\* refreshDisplay the callback of line 640 runs; the response of the request
\* getCurrentUserRecord has sent (line 619) is read by nobody.
GetUserSettles(q) ==
    /\ q \in acct.reqs
    /\ q.user # "unread"
    /\ LET a == [acct EXCEPT !.reqs = @ \ {q}] IN
       acct' =
         IF q.kind = "record" THEN a
         ELSE IF q.user = "user"
         THEN [IssueGetUser(a, "record") EXCEPT
                  !.image = IF RecordCallbackRuns THEN "block" ELSE @,
                  !.name = IF RecordCallbackRuns THEN "block" ELSE @,
                  !.SIBtn = "none", !.SOBtn = "block", !.fields = "none",
                  !.saw = "user"]
         ELSE [a EXCEPT
                  !.image = "none", !.name = "none",
                  !.SIBtn = "block", !.SOBtn = "none", !.fields = "block",
                  !.saw = "null"]
    /\ UNCHANGED <<controller, ldr, page, stg, input>>

NextAccount ==
    \/ \E op \in {"in", "out"} : AuthCall(op)
    \/ \E c \in acct.calls, ok \in BOOLEAN : AuthSettles(c, ok)
    \/ \E q \in acct.reqs : GetUserReads(q)
    \/ \E q \in acct.reqs : GetUserSettles(q)

SpecAccount == InitAccount /\ [][NextAccount]_vars

(***************************************************************************)
(* Properties of initLoadOperation.                                        *)
(***************************************************************************)

Started == 1..nRuns

NoWorkRaised(r) == \A j \in 1..Len(WorksOf(r)) : ~WorksOf(r)[j].raised

\* C1: a run none of whose work raises invokes the work of its steps once each,
\* in submission order, and then its callback once: the works logged are always
\* steps 0, 1, 2, ... without gap or repeat, the callback is invoked only when
\* all n works have been invoked, and when the event loop is idle again all n
\* works and the callback (when one was passed) have been invoked exactly once.
C1_EachWorkOnceThenCallback ==
    \A r \in Started :
        NoWorkRaised(r) =>
            LET w == WorksOf(r) IN
            /\ Len(w) <= run[r].n
            /\ \A j \in 1..Len(w) : w[j].i = j - 1
            /\ run[r].cbCount <= 1
            /\ run[r].cbCount = 1 =>
                   /\ Len(w) = run[r].n
                   /\ run[r].cbSaw[1].works = run[r].n
            /\ Quiescent =>
                   /\ run[r].pc = "completed"
                   /\ Len(w) = run[r].n
                   /\ run[r].cbCount = (IF run[r].cb THEN 1 ELSE 0)

C1_Witness ==
    \E r \in Started :
        /\ run[r].n = MaxOps
        /\ run[r].pc = "completed"
        /\ run[r].cbCount = 1
        /\ Len(WorksOf(r)) = MaxOps

\* C2: at most one tip-rotation interval created by the controller is alive.
C2_AtMostOneTimer == Cardinality(timers) <= 1

\* C3: the interval a run started is alive only while the run is running: a
\* run that has completed or failed has had its interval cleared.
C3_TimerOnlyWhileRunning ==
    \A r \in Started :
        run[r].pc \in {"completed", "failed"} => run[r].tipInterval \notin timers

\* C4: a run that started an interval and in which no work raised has cleared
\* it when its callback is invoked (the callback sees it cleared and the tip
\* sink empty); the interval never ticks afterwards, and the tip sink is empty
\* for as long as nothing else writes it.
C4_TimerStoppedAtCallback ==
    \A r \in Started :
        (run[r].pc = "completed" /\ run[r].tipInterval # 0) =>
            /\ run[r].tipInterval \notin timers
            /\ run[r].cb => (~run[r].cbSaw[1].timerAlive /\ run[r].cbSaw[1].tip = 0)
            /\ writer.tip # -run[r].tipInterval
            /\ writer.tip = r => tipText = 0

C4_Witness ==
    \E r \in Started :
        /\ run[r].pc = "completed"
        /\ run[r].tipInterval # 0
        /\ run[r].cbCount = 1
        /\ run[r].n > 0
        /\ Quiescent
        /\ tipText = 0

\* The work of run r that raised, as logged: its index and what the sinks showed.
RaisedWork(r) == WorksOf(r)[Len(WorksOf(r))]

SomeWorkRaised(r) == \E j \in 1..Len(WorksOf(r)) : WorksOf(r)[j].raised

\* C5: when the work of step k of a run raises, that work is the last one the
\* run invokes (no step j > k runs), the run is failed and stays failed (the
\* completion handler never makes it completed), and its callback is never
\* invoked.
C5_RaiseStopsTheRun ==
    \A r \in Started :
        SomeWorkRaised(r) =>
            /\ RaisedWork(r).raised
            /\ \A j \in 1..(Len(WorksOf(r)) - 1) : ~WorksOf(r)[j].raised
            /\ run[r].pc = "failed"
            /\ run[r].failedAt = RaisedWork(r).i
            /\ Len(WorksOf(r)) = run[r].failedAt + 1
            /\ run[r].cbCount = 0
            /\ run[r].cbSaw = <<>>

C5_Witness ==
    \E r \in Started :
        /\ run[r].pc = "failed"
        /\ run[r].cb
        /\ run[r].failedAt = 0
        /\ run[r].n = MaxOps
        /\ Quiescent

C7_FailedRunLeaksTimer ==
    \A r \in Started :
        (SomeWorkRaised(r) /\ run[r].tipInterval # 0) =>
            /\ run[r].tipInterval \in timers
            /\ Quiescent => ENABLED (\E k \in 1..cfg.ntips : Tick(run[r].tipInterval, k))

C7_Witness ==
    \E r \in Started :
        /\ run[r].pc = "failed"
        /\ run[r].tipInterval # 0
        /\ writer.tip = -run[r].tipInterval
        /\ tipText = NumTips

\* C8 as stated: the percentage written before step i of n is floor(100 * i / n).
C8_PctIsFloor ==
    \A j \in 1..Len(log) :
        /\ log[j].pct = (100 * log[j].i) \div run[log[j].r].n
        /\ log[j].bar = (100 * log[j].i) \div run[log[j].r].n

\* C8, amended: the percentage written to the percentage sink and to the
\* progress bar before step i of n is 100 * i / n rounded to the nearest
\* integer, halves up: p - 1/2 <= 100 * i / n < p + 1/2. For n = 3 the values
\* are 0, 33, 67.
C8_PctIsRounded ==
    \A j \in 1..Len(log) :
        LET i == log[j].i
            n == run[log[j].r].n
            p == log[j].pct
        IN  /\ log[j].bar = p
            /\ n * (2 * p - 1) <= 200 * i
            /\ 200 * i < n * (2 * p + 1)
            /\ n = 3 => p = <<0, 33, 67>>[i + 1]

C8_Witness ==
    \E j \in 1..Len(log) :
        /\ run[log[j].r].n = 3
        /\ log[j].i = 2
        /\ log[j].pct = 67
        /\ log[j].bar = 67

\* C9: when a run has completed, what it wrote last to the percentage sink and
\* to the progress bar is exactly 100 (its callback sees 100), whatever the
\* last pre-update wrote; no value above 100 is ever written.
C9_CompletionForces100 ==
    /\ pctText <= 100
    /\ barWidth <= 100
    /\ \A j \in 1..Len(log) : log[j].pct <= 100 /\ log[j].bar <= 100
    /\ \A r \in Started :
        run[r].pc = "completed" =>
            /\ writer.pct = r => pctText = 100
            /\ writer.bar = r => barWidth = 100
            /\ run[r].cb => (run[r].cbSaw[1].pct = 100 /\ run[r].cbSaw[1].bar = 100)

C9_Witness ==
    \E r \in Started :
        /\ run[r].pc = "completed"
        /\ run[r].n = 3
        /\ WorksOf(r)[3].pct = 67
        /\ writer.pct = r
        /\ pctText = 100
        /\ barWidth = 100

\* What a page shows of the controller: the sinks and the alive intervals.
observable == <<loadingText, barWidth, pctText, tipText, screenHidden, timers>>

\* C10 as stated: the completion is the only observable state transition of a
\* run of an empty list, so the call itself changes nothing observable.
C10_CompletionIsOnlyTransition ==
    [][(nRuns' = nRuns + 1 /\ run'[nRuns'].n = 0) => UNCHANGED observable]_vars

\* C10, amended: a run of an empty list never writes the label sink and invokes
\* no work; its completion sets the percentage to 100 and invokes the callback
\* once. It makes two observable transitions, not one: the call shows the
\* loading screen and, with tips configured, displays tips[0] and starts the
\* interval; the completion follows as a reaction, before the event loop is
\* idle again.
C10_EmptyRun ==
    \A r \in Started :
        run[r].n = 0 =>
            /\ writer.text # r
            /\ WorksOf(r) = <<>>
            /\ run[r].pc \in {"running", "completed"}
            /\ run[r].cbCount = (IF run[r].cb /\ run[r].pc = "completed" THEN 1 ELSE 0)
            /\ run[r].pc = "running" =>
                   /\ \E j \in 1..Len(mq) : mq[j] = Reaction(r, 0, FALSE)
                   /\ StartsTimer => run[r].tipInterval \in timers
            /\ run[r].pc = "completed" =>
                   /\ writer.pct = r => pctText = 100
                   /\ run[r].cb => run[r].cbSaw[1].pct = 100
            /\ Quiescent => run[r].pc = "completed"

C10_Witness ==
    \E r \in Started :
        /\ run[r].n = 0
        /\ run[r].pc = "completed"
        /\ run[r].cbCount = 1
        /\ run[r].tipInterval # 0
        /\ writer.pct = r
        /\ pctText = 100
        /\ loadingText = <<0, 0>>

\* The reactions of run r that are still queued.
QueuedOf(r) == {j \in 1..Len(mq) : mq[j].r = r}

\* C11: when a run's callback is invoked, the percentage and the progress bar
\* read 100, the tip sink is empty, the run's interval is stopped and the
\* loading screen is hidden, and all n works have been invoked; the callback is
\* the run's last effect: the run is completed and none of its reactions is
\* queued any more.
C11_CallbackSeesFinalState ==
    \A r \in Started :
        run[r].cbCount > 0 =>
            /\ run[r].cbSaw = <<[timerAlive |-> FALSE, tip |-> 0, pct |-> 100,
                                 bar |-> 100, hidden |-> TRUE, works |-> run[r].n,
                                 open |-> 0]>>
            /\ run[r].pc = "completed"
            /\ QueuedOf(r) = {}

C11_Witness ==
    \E r \in Started :
        /\ run[r].cbCount = 1
        /\ run[r].tipInterval # 0
        /\ run[r].n = 2
        /\ WorksOf(r)[2].pct = 50
        /\ WorksOf(r)[2].tip = 1
        /\ ~WorksOf(r)[2].hidden

\* C12: whenever the work of step i of a run is invoked, the label sink shows
\* step i's label and the percentage sink and the progress bar show step i's
\* percentage (100 * i / n to the nearest integer): the pre-update has been
\* done; it was done after the work of step i - 1 returned, for that work ran
\* with step i - 1's label and is logged before.
C12_PreUpdateBeforeWork ==
    \A j \in 1..Len(log) :
        LET e == log[j]
            n == run[e.r].n
        IN  /\ e.label = <<e.r, e.i>>
            /\ e.pct = e.bar
            /\ 2 * n * e.pct <= 200 * e.i + n
            /\ 200 * e.i + n < 2 * n * (e.pct + 1)
            /\ e.i > 0 =>
                   \E k \in 1..(j - 1) :
                       /\ log[k].r = e.r
                       /\ log[k].i = e.i - 1
                       /\ log[k].label = <<e.r, e.i - 1>>
                       /\ ~log[k].raised

C12_Witness ==
    \E j \in 1..Len(log) :
        /\ log[j].i = 2
        /\ log[j].label = <<log[j].r, 2>>
        /\ log[j].pct = 50
        /\ run[log[j].r].n = 4

\* A run that had the controller for itself: no reaction of an earlier run was
\* pending when it was called, and no call has followed it.
Single(r) == run[r].solo /\ r = nRuns

\* C13: with a loading-screen element, every call makes the screen visible (not
\* "hidden") before it returns, so before any reaction of the run; every work
\* of a single run is invoked with the screen visible, and the screen stays
\* visible for as long as the run is running.
C13_ScreenVisibleDuringRun ==
    /\ (cfg.screen /\ inTask) => ~screenHidden
    /\ \A r \in Started :
        (cfg.screen /\ Single(r)) =>
            /\ \A j \in 1..Len(WorksOf(r)) : ~WorksOf(r)[j].hidden
            /\ run[r].pc = "running" => ~screenHidden
            /\ screenHidden => (run[r].pc = "completed" /\ Len(WorksOf(r)) = run[r].n)

C13_Witness ==
    /\ nRuns = 2
    /\ run[1].pc = "completed"
    /\ run[2].solo
    /\ run[2].pc = "running"
    /\ Len(WorksOf(2)) = 2
    /\ ~screenHidden

\* C14: with a tip element and a non-empty tip list, the call itself displays
\* tips[0] and starts the interval: when initLoadOperation returns the tip sink
\* shows tips[0], before any reaction of the run (pre-update, work) and any
\* tick; the first work is invoked with a tip displayed. Without a tip element
\* or with an empty list, no interval is ever started and the tip sink never
\* shows a tip (without a tip element it is never written at all).
C14_FirstTipAtCall ==
    /\ (inTask /\ StartsTimer) =>
           /\ tipText = 1
           /\ writer.tip = nRuns
           /\ run[nRuns].tipInterval \in timers
           /\ WorksOf(nRuns) = <<>>
           /\ Reaction(nRuns, 0, FALSE) \in {mq[j] : j \in 1..Len(mq)}
    /\ StartsTimer =>
           \A r \in Started :
               (run[r].solo /\ WorksOf(r) # <<>>) => WorksOf(r)[1].tip = 1
    /\ ~StartsTimer =>
           /\ timers = {}
           /\ nextTimer = 1
           /\ tipText = 0
           /\ ~cfg.tipsEl => writer.tip = 0
           /\ \A r \in Started : run[r].tipInterval = 0

C14_Witness ==
    /\ inTask
    /\ StartsTimer
    /\ nRuns = 2
    /\ run[1].pc = "failed"
    /\ writer.tip = 2
    /\ tipText = 1
    /\ Cardinality(timers) = 2

\* C15: on a controller that has the label element but lacks some of the
\* optional elements (percentage, progress bar, tips, loading screen), a run in
\* which no work raises only skips the writes to the missing elements: when the
\* event loop is idle again, the work of every step has been invoked, in order,
\* and the callback (when one was passed) has been invoked once.
C15_MissingSinksOnlySkipped ==
    \A r \in Started :
        (cfg.text /\ NoWorkRaised(r)) =>
            /\ \A j \in 1..Len(WorksOf(r)) : WorksOf(r)[j].i = j - 1
            /\ run[r].pc # "failed"
            /\ Quiescent =>
                   /\ Len(WorksOf(r)) = run[r].n
                   /\ run[r].cbCount = (IF run[r].cb THEN 1 ELSE 0)

\* C19: a controller without the label element does not come out of the
\* constructor, so no call of initLoadOperation is ever made on one.
C19_NoLabelNoRun == ~cfg.text => nRuns = 0

\* The failing case: label, percentage and screen present, the progress bar
\* (documented optional) missing: the run fails before its first work.
C15_FailedWithoutElement ==
    \E r \in Started :
        /\ cfg.text /\ cfg.pct /\ cfg.screen /\ ~cfg.bar
        /\ run[r].pc = "failed"
        /\ WorksOf(r) = <<>>

\* C17: a tick of a tip interval (a step taken from the idle event loop that is
\* not a call of initLoadOperation) happens only with an interval alive, sets the
\* tip sink to an element of the tip list (position 1..tips.length), and leaves
\* the label, percentage and progress-bar sinks, the visibility of the loading
\* screen, the pending reactions (the next step of every run), the works
\* invoked, the runs and the alive intervals as they are.
C17_TickWritesOnlyTheTip ==
    [][(Quiescent /\ nRuns' = nRuns) =>
           /\ timers # {}
           /\ cfg.tipsEl
           /\ tipText' \in 1..cfg.ntips
           /\ UNCHANGED <<loadingText, barWidth, pctText, screenHidden, mq, log,
                          run, timers, nextTimer, effects>>]_vars

C17_Witness ==
    /\ writer.tip < 0
    /\ tipText = NumTips
    /\ writer.text = 2
    /\ loadingText = <<2, 1>>
    /\ pctText = 50
    /\ ~screenHidden

\* C18: a run called after the runs before it have completed, and not overlapped
\* by a later call, on the same controller: the call makes the loading screen
\* visible again; its works are invoked in order, the first with percentage 0,
\* all with the screen visible; when the event loop is idle again it has
\* completed, all its works and its callback have been invoked once, the screen
\* is hidden, the tip sink empty and no interval alive; the callbacks of the
\* earlier runs have been invoked once, not again.
C18_ControllerReusable ==
    \A r \in Started :
        (r > 1 /\ Single(r) /\ NoWorkRaised(r)
               /\ \A q \in 1..(r - 1) : run[q].pc = "completed") =>
            LET w == WorksOf(r) IN
            /\ inTask => ~screenHidden
            /\ \A j \in 1..Len(w) : w[j].i = j - 1 /\ ~w[j].hidden
            /\ w # <<>> => w[1].pct = 0 /\ w[1].bar = 0
            /\ run[r].cbCount <= 1
            /\ \A q \in 1..(r - 1) : run[q].cbCount = (IF run[q].cb THEN 1 ELSE 0)
            /\ Quiescent =>
                   /\ run[r].pc = "completed"
                   /\ Len(w) = run[r].n
                   /\ run[r].cbCount = (IF run[r].cb THEN 1 ELSE 0)
                   /\ screenHidden
                   /\ tipText = 0
                   /\ timers = {}

C18_Witness ==
    /\ nRuns = 2
    /\ run[1].pc = "completed" /\ run[1].cbCount = 1 /\ run[1].n = 2
    /\ run[1].tipInterval # 0
    /\ run[2].solo /\ run[2].pc = "completed" /\ run[2].cbCount = 1 /\ run[2].n = 2
    /\ WorksOf(2)[1].pct = 0
    /\ Quiescent
    /\ screenHidden
    /\ timers = {}

\* C16: the controller does not wait for what a work has started: no effect is
\* ever awaited; while an effect started by step i of a run is pending, the
\* reaction of step i + 1 (the completion handler after the last step) is
\* already queued, or has run; when it is at the head of the queue it can run
\* with the effect still pending; and a run in which no work raises completes
\* and invokes its callback by the time the event loop is idle, pending effects
\* or not.
C16_NoWaitForEffects ==
    /\ \A e \in effects :
        /\ ~e.awaited
        /\ ~e.settled =>
               \/ Reaction(e.r, e.i + 1, FALSE) \in {mq[j] : j \in 1..Len(mq)}
               \/ Len(WorksOf(e.r)) > e.i + 1
               \/ run[e.r].pc \in {"completed", "failed"}
        /\ (~e.settled /\ ~inTask /\ mq # <<>> /\ Head(mq) = Reaction(e.r, e.i + 1, FALSE)) =>
               ENABLED (StepReaction(FALSE) \/ CompletionReaction)
    /\ \A r \in Started :
        (NoWorkRaised(r) /\ Quiescent) =>
            /\ run[r].pc = "completed"
            /\ Len(WorksOf(r)) = run[r].n
            /\ run[r].cbCount = (IF run[r].cb THEN 1 ELSE 0)

\* The callback of a run has been invoked while the effect its first step
\* started is still pending, and the second step's work ran with it pending.
C16_Witness ==
    \E r \in Started :
        /\ run[r].n = 2
        /\ run[r].cbCount = 1
        /\ run[r].cbSaw[1].open = 1
        /\ WorksOf(r)[2].open = 1
        /\ \E e \in OpenEffects(r) : e.i = 0
        /\ Quiescent

\* C24: under the event loop no interval callback runs between the call of a run
\* and the end of its chain: while a run is running the event loop is not idle
\* and the tip sink was not last written by a tick. The interval of a run in
\* which no work raises never ticks at all: each of its works is invoked with
\* tips[0] displayed (or with the sink cleared by the completion of an
\* overlapping run), and what the run wrote last to the tip sink is tips[0]
\* while it is running and the empty string once it has completed.
C24_NoTickDuringRun ==
    /\ (\E r \in Started : run[r].pc = "running") => (~Quiescent /\ writer.tip >= 0)
    /\ \A r \in Started :
        (run[r].tipInterval # 0 /\ NoWorkRaised(r)) =>
            /\ writer.tip # -run[r].tipInterval
            /\ \A j \in 1..Len(WorksOf(r)) : WorksOf(r)[j].tip \in {0, 1}
            /\ Single(r) => \A j \in 1..Len(WorksOf(r)) : WorksOf(r)[j].tip = 1
            /\ writer.tip = r =>
                   tipText = (IF run[r].pc = "completed" THEN 0 ELSE 1)
            /\ run[r].cbCount = 1 => run[r].cbSaw[1].tip = 0

C24_Witness ==
    \E r \in Started :
        /\ Single(r)
        /\ run[r].tipInterval # 0
        /\ run[r].n = 3
        /\ run[r].pc = "completed"
        /\ \A j \in 1..3 : WorksOf(r)[j].tip = 1
        /\ writer.tip = r
        /\ tipText = 0
        /\ timers = {}

\* Run r overlapped another run: it was called while reactions of an earlier
\* run were pending, or the next run was called while its own were.
Overlapped(r) == ~run[r].solo \/ (r < nRuns /\ ~run[r + 1].solo)

\* C25: when two runs overlap, every work of either run is invoked with the
\* loading screen visible and, with tips configured, with a tip in the tip
\* sink, and each run invokes its works in submission order.
C25_OverlappingRunsKeepScreen ==
    \A r \in Started :
        Overlapped(r) =>
            \A j \in 1..Len(WorksOf(r)) :
                /\ WorksOf(r)[j].i = j - 1
                /\ ~WorksOf(r)[j].hidden
                /\ StartsTimer => WorksOf(r)[j].tip # 0

FailedResources ==
    {i \in 1..Len(ldr.types) : ~ValidType(ldr.types[i]) \/ ldr.fired[i] = "error"}

\* C20: after loadFilesFromURLs(resources): an element has been appended for
\* exactly the resources of type 'css' or 'js', whatever the other resources
\* are and whatever happens to them; the promise returned is fulfilled only
\* when the load event of every resource has fired; once a resource has an
\* invalid type or has fired an error event, the promise is never fulfilled:
\* it is rejected, or its rejection is the reaction that runs next; and it is
\* rejected only for such a resource.
C20_LoaderPromise ==
    ldr.called =>
        /\ ldr.appended = {i \in 1..Len(ldr.types) : ldr.types[i] \in {"css", "js"}}
        /\ ldr.all \in {"pending", "resolved", "rejected"}
        /\ ldr.all = "resolved" =>
               \A i \in 1..Len(ldr.types) : ldr.fired[i] = "load"
        /\ FailedResources # {} =>
               /\ ldr.all # "resolved"
               /\ ldr.all = "pending" => ENABLED AllSettles
        /\ ldr.all = "rejected" => FailedResources # {}

C20_Witness ==
    /\ ldr.called
    /\ ldr.types = <<"css", "other", "js">>
    /\ ldr.appended = {1, 3}
    /\ ldr.fired = <<"load", "none", "load">>
    /\ ldr.all = "rejected"

(***************************************************************************)
(* Properties of MB_AccountManager.                                        *)
(***************************************************************************)

\* C21: when refreshDisplay has settled (the response has arrived and no request
\* is in flight): if it found a user signed in, the account image, the display
\* name and the sign-out button are shown and the sign-in button and the
\* email and password fields are hidden; if it found none, the sign-in button
\* and the fields are shown and the sign-out button, the image and the name are
\* hidden; the sign-in and the sign-out button are never both visible.
C21_RefreshShowsAccount ==
    (acct.reqs = {} /\ acct.saw # "none") =>
        /\ ~(Visible(acct.SIBtn) /\ Visible(acct.SOBtn))
        /\ acct.saw = "user" =>
               /\ Visible(acct.image) /\ Visible(acct.name) /\ Visible(acct.SOBtn)
               /\ ~Visible(acct.SIBtn) /\ ~Visible(acct.fields)
        /\ acct.saw = "null" =>
               /\ Visible(acct.SIBtn) /\ Visible(acct.fields)
               /\ ~Visible(acct.SOBtn) /\ ~Visible(acct.image) /\ ~Visible(acct.name)

\* C27: whatever the order of the signIn and signOut calls and of the responses
\* to the getUser requests, once every call and every request has settled the
\* controls correspond to the authentication state: with a user signed in the
\* sign-out button is shown and the sign-in form hidden, with none signed in
\* the sign-in form is shown and the sign-out button hidden.
C27_ControlsMatchFinalAuth ==
    (acct.calls = {} /\ acct.reqs = {}) =>
        /\ acct.auth =>
               Visible(acct.SOBtn) /\ ~Visible(acct.SIBtn) /\ ~Visible(acct.fields)
        /\ ~acct.auth =>
               Visible(acct.SIBtn) /\ Visible(acct.fields) /\ ~Visible(acct.SOBtn)

(***************************************************************************)
(* Properties of window.onload.                                            *)
(***************************************************************************)

\* C22: without WebGL, once the compatibility step of the page's load sequence
\* has run, the "noSupport" notice is shown and the step has raised; it is the
\* only work ever invoked: the settings editor is not created, create3DViewport
\* is not called, the run is failed, its callback is never invoked and the
\* loading screen is never hidden.
C22_NoWebGLStopsTheLoad ==
    (~page.webgl /\ WorksOf(1) # <<>>) =>
        /\ page.noSupport
        /\ Len(WorksOf(1)) = 1
        /\ WorksOf(1)[1].i = 0
        /\ WorksOf(1)[1].raised
        /\ run[1].pc = "failed"
        /\ run[1].cbCount = 0
        /\ ~page.editor
        /\ ~page.viewport
        /\ ~screenHidden

C22_Witness ==
    /\ ~page.webgl
    /\ page.noSupport
    /\ run[1].pc = "failed"
    /\ Quiescent
    /\ ~screenHidden
    /\ writer.tip < 0

\* C23: with WebGL, the compatibility step does not raise, whether WebSocket and
\* the Gamepad API are supported or not: without WebSocket it leaves
\* onlinePlayEnabled false, without the Gamepad API gamepadSupported false; and
\* when no later operation fails, the load completes with every operation run.
C23_MissingApiOnlyDisables ==
    (page.webgl /\ WorksOf(1) # <<>>) =>
        /\ ~WorksOf(1)[1].raised
        /\ ~page.ws => ~page.onlinePlayEnabled
        /\ ~page.gamepad => ~page.gamepadSupported
        /\ (Quiescent /\ NoWorkRaised(1)) =>
               (run[1].pc = "completed" /\ Len(WorksOf(1)) = NumPageOps)

(***************************************************************************)
(* Properties of MB_StorageManager.                                        *)
(***************************************************************************)

C29_OneDebugInterval ==
    /\ Cardinality(stg.alive) <= 1
    /\ (stg.debugInfoInterval # 0) <=> (stg.alive # {})
    /\ stg.debugInfoInterval # 0 => stg.alive = {stg.debugInfoInterval}
    /\ stg.refreshes = 0 => stg.alive = {}
    /\ stg.refreshes > 0 => ((stg.alive # {}) <=> stg.lastRead)

C29_Witness ==
    /\ stg.refreshes = MaxStgEvents
    /\ stg.lastRead
    /\ stg.debugInfoInterval = 2
    /\ stg.alive = {2}

(***************************************************************************)
(* Properties of MB_InputManager.                                          *)
(***************************************************************************)

\* C30: after a keydown event: when its target is an input or textarea element,
\* or its key is none of W, A, S, D (either case) and the arrow keys,
\* playerMovementInput is what it was before the event; a key for up sets y to
\* inputThreshold, one for down y to -inputThreshold, one for left x to
\* -inputThreshold, one for right x to inputThreshold, and the other axis is
\* what it was. After W followed by D, playerMovementInput is (inputThreshold,
\* inputThreshold).
C30_KeydownSetsOwnAxis ==
    LET e == input.hist[2]
        before == input.hist[1]
        th == input.threshold
        px == input.prev[1]
        py == input.prev[2]
    IN  /\ e.key \notin {"none", "mousemove"} =>
            /\ (e.onInput \/ e.key \in {"q", "Enter"}) => (input.x = px /\ input.y = py)
            /\ (~e.onInput /\ e.key \in {"W", "w", "ArrowUp"}) =>
                   (input.x = px /\ input.y = th)
            /\ (~e.onInput /\ e.key \in {"S", "s", "ArrowDown"}) =>
                   (input.x = px /\ input.y = -th)
            /\ (~e.onInput /\ e.key \in {"A", "a", "ArrowLeft"}) =>
                   (input.x = -th /\ input.y = py)
            /\ (~e.onInput /\ e.key \in {"D", "d", "ArrowRight"}) =>
                   (input.x = th /\ input.y = py)
        /\ (before = [key |-> "W", onInput |-> FALSE]
                /\ e = [key |-> "D", onInput |-> FALSE]) =>
               (input.x = th /\ input.y = th)

C30_Witness ==
    /\ input.hist = <<[key |-> "W", onInput |-> FALSE], [key |-> "D", onInput |-> FALSE]>>
    /\ input.threshold = 2
    /\ input.prev = <<-1, 2>>
    /\ input.x = 2
    /\ input.y = 2

====
